---- MODULE Spec2Model ----
(***************************************************************************)
(* Model of the prospector backend (backend/main.py): the PostgreSQL       *)
(* tables the handlers read and write, and one action per HTTP handler.    *)
(* Geometries are finite sets of cells of a small plane; a timestamp is a  *)
(* natural number; SQL NULL / Python None is the integer NULL.             *)
(***************************************************************************)
EXTENDS Integers, Sequences, FiniteSets, TLC

VARIABLES
  users,            \* table users: id -> [agency_id, min_surface_m2, max_surface_m2]
  dpe_targets,      \* table dpe_targets: id -> [surface_m2, latitude, longitude, geom]
  agency_targets,   \* table agency_targets: set of overlay rows
  user_territories, \* table user_territories: set of rows [user_id, agency_id, geom]
  zones,            \* table zones: sequence of geometries, the index is the serial id
  agency_zones,     \* table agency_zones: set of rows [agency_id, zone_id]
  clock,            \* the database's now()
  resp,             \* the last handler's response
  txn,              \* the requests in progress, one per connection
  marked            \* history: the (agency, target) pairs a request has set to
                    \* done, ignore or done_repasser

vars == <<users, dpe_targets, agency_targets, user_territories, zones,
          agency_zones, clock, resp, txn, marked>>

db == <<users, dpe_targets, agency_targets, user_territories, zones, agency_zones>>

-----------------------------------------------------------------------------
(* Program constants *)

NULL == -1

DEV_USER_ID == 1

ADMIN_USER_IDS == {1}

TOUR_MAX == 8

POOL_MAX == 50

allowed == {"non_traite", "done", "ignore", "done_repasser"}

-----------------------------------------------------------------------------
(* Bounds of the model *)

MaxTargets == 3       \* catalog size of the small specifications

MaxTourTargets == 52  \* largest catalog of the tour specification

MaxZones == 1         \* rows the zones table may grow to

MaxZoneRows == 3      \* the same, where only the admin's zone requests run

MaxClock == 1         \* last instant of the clock

Agencies == {1, 2}

UserIds == {1, 2, 3}           \* 3 is the id of no user

Geoms == {{1}, {1, 2}}         \* the polygons an admin draws, as sets of cells

FollowUps == {NULL, 5}         \* next_action_at values a caller sends

StatusInputs == allowed \cup {"autre"}

Seeds == {0, 1}                \* the data sets the initial states are drawn from

Procs == {1, 2}                \* the connections that serve requests side by side

-----------------------------------------------------------------------------
(* The tables as the import script and the admin leave them *)

\* geom of target i: one cell, or a footprint over both cells
Footprint(i) ==
  CASE i % 3 = 1 -> {1}
    [] i % 3 = 2 -> {2}
    [] OTHER     -> {1, 2}

\* surface_m2 of target i: sql_num(surface) is a number or NULL
Surface(i, seed) ==
  CASE (i + seed) % 4 = 1 -> 1
    [] (i + seed) % 4 = 2 -> 3
    [] (i + seed) % 4 = 3 -> NULL
    [] OTHER              -> 2

Latitude(i, seed) == IF (i + seed) % 5 = 4 THEN NULL ELSE (3 * i + seed) % 5

Longitude(i, seed) == IF (i + 2 * seed) % 7 = 5 THEN NULL ELSE (2 * i + seed) % 7

\* INSERT INTO dpe_targets: n rows with serial ids 1..n
Catalog(n, seed) ==
  [i \in 1..n |-> [surface_m2 |-> Surface(i, seed),
                   latitude   |-> Latitude(i, seed),
                   longitude  |-> Longitude(i, seed),
                   geom       |-> Footprint(i)]]

\* INSERT INTO agency_targets ... SELECT agency_id, id, status, next_action_at,
\* now() FROM dpe_targets: one row per target of the given set, status
\* 'non_traite' (the literal the script writes), next_action_at never set.
ImportOverlay(agency_id, ids, now) ==
  {[agency_id      |-> agency_id,
    dpe_target_id  |-> i,
    status         |-> "non_traite",
    next_action_at |-> NULL,
    updated_at     |-> now] : i \in ids}

\* the rows admin_create_user inserted. Even data sets: agent 1 of agency 1
\* with a minimum surface, agent 2 of agency 2 with a maximum. Odd data sets:
\* two agents of agency 1, one without bounds and one with both.
UserTable(seed) ==
  IF seed % 2 = 0
  THEN (1 :> [agency_id |-> 1, min_surface_m2 |-> 2,    max_surface_m2 |-> NULL]) @@
       (2 :> [agency_id |-> 2, min_surface_m2 |-> NULL, max_surface_m2 |-> 2])
  ELSE (1 :> [agency_id |-> 1, min_surface_m2 |-> NULL, max_surface_m2 |-> NULL]) @@
       (2 :> [agency_id |-> 1, min_surface_m2 |-> 2,    max_surface_m2 |-> 2])

NoResp ==
  [op |-> "none", kind |-> "ok", uid |-> NULL, dpe_id |-> NULL,
   detail |-> "", status |-> "", payload_next_action_at |-> NULL,
   next_action_at |-> NULL, geom |-> {},
   items |-> <<>>, target_ids_ordered |-> <<>>,
   polyline |-> [present |-> FALSE, coordinates |-> <<>>]]

\* a connection that serves no request: no statement position, no local
\* variable, no uncommitted row
NoCall ==
  [op |-> "idle", pc |-> "idle", uid |-> NULL, agency_id |-> NULL,
   zone_id |-> NULL, dpe_id |-> NULL, status |-> "", next_action_at |-> NULL,
   geom |-> {}, del |-> {}, ins |-> {}, results |-> {}, base |-> {},
   last |-> FALSE]

\* The state after the imports: a first import for agency 2 of a two-row
\* file, then an import without --reset for agency 1, whose overlay INSERT
\* selects every row of dpe_targets.
InitWith(n, seed) ==
  /\ users = UserTable(seed)
  /\ dpe_targets = Catalog(n, seed)
  /\ agency_targets = ImportOverlay(1, 1..n, 0) \cup ImportOverlay(2, (1..n) \cap {1, 2}, 0)
  /\ user_territories = {}
  /\ zones = <<>>
  /\ agency_zones = {}
  /\ clock = 0
  /\ resp = NoResp
  /\ txn = [p \in Procs |-> NoCall]
  /\ marked = {}

Init == \E seed \in Seeds : InitWith(MaxTargets, seed)

-----------------------------------------------------------------------------
(* Helpers *)

_resolve_user_id(user_id) == IF user_id # NULL THEN user_id ELSE DEV_USER_ID

_is_admin(uid) == uid \in ADMIN_USER_IDS

\* SELECT agency_id FROM users WHERE id = %s: the row is None for no user
_user_exists(user_id) == user_id \in DOMAIN users

_get_user_agency(user_id) == users[user_id].agency_id

_user_has_territory(user_id) == \E ut \in user_territories : ut.user_id = user_id

\* SELECT zone_id ... ORDER BY zone_id ASC LIMIT 1, NULL for no row
_get_primary_agency_zone(agency_id) ==
  LET linked == {az.zone_id : az \in {x \in agency_zones : x.agency_id = agency_id}}
  IN IF linked = {} THEN NULL
     ELSE CHOOSE z \in linked : \A y \in linked : z <= y

\* obj.get("coordinates") must be a non-empty list: the empty geometry is the
\* payload that fails the validation
_validate_geojson_polygon(obj) == obj # {}

\* str.strip() on the names the callers send
Strip(name) == IF name \in {"", " "} THEN "" ELSE name

\* PostGIS ST_Contains(a, b): no point of b lies outside a, and they share one
ST_Contains(a, b) == b # {} /\ b \subseteq a

\* PostGIS ST_Intersects(a, b): a and b share a point
ST_Intersects(a, b) == a \cap b # {}

\* SQL x >= y and x <= y: NULL (not true) when an operand is NULL
\* SqlGe that lets a NULL operand pass
SqlGe_null_passes(x, y) == x = NULL \/ y = NULL \/ x >= y

SqlGe(x, y) == x # NULL /\ y # NULL /\ x >= y

SqlLe(x, y) == x # NULL /\ y # NULL /\ x <= y

RECURSIVE SortAsc_descending(_)
\* SortAsc that puts the largest first
SortAsc_descending(S) ==
  IF S = {} THEN <<>>
  ELSE LET m == CHOOSE x \in S : \A y \in S : x >= y
       IN <<m>> \o SortAsc_descending(S \ {m})

RECURSIVE SortAsc(_)
\* ORDER BY ... ASC of a set of integers
SortAsc(S) ==
  IF S = {} THEN <<>>
  ELSE LET m == CHOOSE x \in S : \A y \in S : x <= y
       IN <<m>> \o SortAsc(S \ {m})

RECURSIVE SortDesc(_)
\* ORDER BY ... DESC of a set of integers
SortDesc(S) ==
  IF S = {} THEN <<>>
  ELSE LET m == CHOOSE x \in S : \A y \in S : x >= y
       IN <<m>> \o SortDesc(S \ {m})

\* LIMIT n
Limit(seq, n) == SubSeq(seq, 1, IF Len(seq) < n THEN Len(seq) ELSE n)

Resp(op, kind) == [NoResp EXCEPT !.op = op, !.kind = kind]

-----------------------------------------------------------------------------
(* GET /dpe *)

\* DpeWhere with the region tested by ST_Intersects instead of ST_Contains
DpeWhere_zone_intersects(at, zone_id, uid, agency_id) ==
  /\ at.dpe_target_id \in DOMAIN dpe_targets
  /\ zone_id \in DOMAIN zones
  /\ uid \in DOMAIN users
  /\ at.agency_id = agency_id
  /\ ST_Intersects(zones[zone_id], dpe_targets[at.dpe_target_id].geom)
  /\ \E ut \in user_territories :
        /\ ut.user_id = uid
        /\ ST_Intersects(ut.geom, dpe_targets[at.dpe_target_id].geom)
  /\ \/ users[uid].min_surface_m2 = NULL
     \/ SqlGe(dpe_targets[at.dpe_target_id].surface_m2, users[uid].min_surface_m2)
  /\ \/ users[uid].max_surface_m2 = NULL
     \/ SqlLe(dpe_targets[at.dpe_target_id].surface_m2, users[uid].max_surface_m2)

\* the WHERE clause of get_dpe's query for one agency_targets row
DpeWhere(at, zone_id, uid, agency_id) ==
  /\ at.dpe_target_id \in DOMAIN dpe_targets
  /\ zone_id \in DOMAIN zones
  /\ uid \in DOMAIN users
  /\ at.agency_id = agency_id
  /\ ST_Contains(zones[zone_id], dpe_targets[at.dpe_target_id].geom)
  /\ \E ut \in user_territories :
        /\ ut.user_id = uid
        /\ ST_Intersects(ut.geom, dpe_targets[at.dpe_target_id].geom)
  /\ \/ users[uid].min_surface_m2 = NULL
     \/ SqlGe(dpe_targets[at.dpe_target_id].surface_m2, users[uid].min_surface_m2)
  /\ \/ users[uid].max_surface_m2 = NULL
     \/ SqlLe(dpe_targets[at.dpe_target_id].surface_m2, users[uid].max_surface_m2)

\* one item of the response, from a joined row
DpeItem(at) ==
  [id             |-> at.dpe_target_id,
   surface        |-> dpe_targets[at.dpe_target_id].surface_m2,
   latitude       |-> dpe_targets[at.dpe_target_id].latitude,
   longitude      |-> dpe_targets[at.dpe_target_id].longitude,
   status         |-> at.status,
   next_action_at |-> at.next_action_at]

\* the query of get_dpe, ORDER BY t.id, and the items built from its rows
DpeItems(zone_id, uid, agency_id) ==
  LET rows  == {at \in agency_targets : DpeWhere(at, zone_id, uid, agency_id)}
      order == SortAsc({at.dpe_target_id : at \in rows})
  IN [k \in 1..Len(order) |->
        DpeItem(CHOOSE at \in rows : at.dpe_target_id = order[k])]

\* get_dpe_response where an agent without micro-territory is not restricted:
\* no short-circuit, and the territory clause of the query applies only to an
\* agent who has one
get_dpe_response_unrestricted(uid) ==
  IF ~_user_exists(uid) THEN [Resp("get_dpe", "NotFound") EXCEPT !.uid = uid]
  ELSE LET agency_id == _get_user_agency(uid)
           zone_id   == _get_primary_agency_zone(agency_id)
           rows  == {at \in agency_targets :
                       /\ at.dpe_target_id \in DOMAIN dpe_targets
                       /\ zone_id \in DOMAIN zones
                       /\ at.agency_id = agency_id
                       /\ ST_Contains(zones[zone_id], dpe_targets[at.dpe_target_id].geom)
                       /\ \/ ~_user_has_territory(uid)
                          \/ DpeWhere(at, zone_id, uid, agency_id)}
           order == SortAsc({at.dpe_target_id : at \in rows})
       IN IF zone_id = NULL THEN [Resp("get_dpe", "ok") EXCEPT !.uid = uid]
          ELSE [Resp("get_dpe", "ok") EXCEPT
                  !.uid = uid,
                  !.items = [k \in 1..Len(order) |->
                               DpeItem(CHOOSE at \in rows : at.dpe_target_id = order[k])]]

get_dpe_response(uid) ==
  IF ~_user_exists(uid) THEN [Resp("get_dpe", "NotFound") EXCEPT !.uid = uid]
  ELSE IF ~_user_has_territory(uid) THEN [Resp("get_dpe", "ok") EXCEPT !.uid = uid]
  ELSE LET agency_id == _get_user_agency(uid)
           zone_id   == _get_primary_agency_zone(agency_id)
       IN IF zone_id = NULL THEN [Resp("get_dpe", "ok") EXCEPT !.uid = uid]
          ELSE [Resp("get_dpe", "ok") EXCEPT
                  !.uid = uid, !.items = DpeItems(zone_id, uid, agency_id)]

get_dpe(user_id) ==
  /\ resp' = get_dpe_response(_resolve_user_id(user_id))
  /\ UNCHANGED <<db, clock>>

-----------------------------------------------------------------------------
(* POST /dpe/{dpe_id}/status *)

\* StoredNextAction that keeps the payload's timestamp for every status
StoredNextAction_keeps_payload(new_status, next_action_at) == next_action_at

\* the value written to next_action_at: the payload's only for done_repasser
StoredNextAction(new_status, next_action_at) ==
  IF new_status = "done_repasser" THEN next_action_at ELSE NULL

\* UpdateRows whose WHERE clause forgets the agency
UpdateRows_any_agency(rows, agency_id, dpe_id, new_status, next_action_at, now) ==
  {IF at.dpe_target_id = dpe_id
   THEN [at EXCEPT !.status = new_status,
                   !.next_action_at = next_action_at,
                   !.updated_at = now]
   ELSE at : at \in rows}

\* UPDATE agency_targets SET status, next_action_at, updated_at = now() WHERE ...
UpdateRows(rows, agency_id, dpe_id, new_status, next_action_at, now) ==
  {IF at.agency_id = agency_id /\ at.dpe_target_id = dpe_id
   THEN [at EXCEPT !.status = new_status,
                   !.next_action_at = next_action_at,
                   !.updated_at = now]
   ELSE at : at \in rows}

\* update_dpe_status_result that falls back to the default status instead of
\* refusing a status outside the allowed list
update_dpe_status_result_coerce(rows, now, dpe_id, status, next_action_at, uid) ==
  LET fail(kind, detail) ==
        [kind |-> kind, detail |-> detail, rows |-> rows, stored |-> NULL]
      new_status == IF status \in allowed THEN status ELSE "non_traite"
  IN
  IF new_status = "done_repasser" /\ next_action_at = NULL
    THEN fail("InvalidArgument", "next_action_at requis pour done_repasser")
  ELSE IF ~_user_exists(uid) THEN fail("NotFound", "User inconnu")
  ELSE LET stored    == StoredNextAction(new_status, next_action_at)
           agency_id == _get_user_agency(uid)
           rowcount  == Cardinality({at \in rows : at.agency_id = agency_id
                                                    /\ at.dpe_target_id = dpe_id})
       IN IF rowcount = 0 THEN fail("NotFound", "Target absent de l'overlay agence")
          ELSE [kind   |-> "ok", detail |-> "",
                rows   |-> UpdateRows(rows, agency_id, dpe_id, new_status, stored, now),
                stored |-> stored]

\* update_dpe_status_result as an upsert: a missing overlay row is inserted
update_dpe_status_result_upsert(rows, now, dpe_id, status, next_action_at, uid) ==
  LET fail(kind, detail) ==
        [kind |-> kind, detail |-> detail, rows |-> rows, stored |-> NULL] IN
  IF status \notin allowed THEN fail("InvalidArgument", "Statut invalide")
  ELSE IF status = "done_repasser" /\ next_action_at = NULL
    THEN fail("InvalidArgument", "next_action_at requis pour done_repasser")
  ELSE IF ~_user_exists(uid) THEN fail("NotFound", "User inconnu")
  ELSE LET stored    == StoredNextAction(status, next_action_at)
           agency_id == _get_user_agency(uid)
           rowcount  == Cardinality({at \in rows : at.agency_id = agency_id
                                                    /\ at.dpe_target_id = dpe_id})
       IN IF rowcount = 0
          THEN [kind   |-> "ok", detail |-> "",
                rows   |-> rows \cup {[agency_id      |-> agency_id,
                                       dpe_target_id  |-> dpe_id,
                                       status         |-> status,
                                       next_action_at |-> stored,
                                       updated_at     |-> now]},
                stored |-> stored]
          ELSE [kind   |-> "ok", detail |-> "",
                rows   |-> UpdateRows(rows, agency_id, dpe_id, status, stored, now),
                stored |-> stored]

\* update_dpe_status_result whose UPDATE skips the rows that already hold the
\* new status (AND status <> %s), so that a repeated call matches no row
update_dpe_status_result_skip_same(rows, now, dpe_id, status, next_action_at, uid) ==
  LET fail(kind, detail) ==
        [kind |-> kind, detail |-> detail, rows |-> rows, stored |-> NULL] IN
  IF status \notin allowed THEN fail("InvalidArgument", "Statut invalide")
  ELSE IF status = "done_repasser" /\ next_action_at = NULL
    THEN fail("InvalidArgument", "next_action_at requis pour done_repasser")
  ELSE IF ~_user_exists(uid) THEN fail("NotFound", "User inconnu")
  ELSE LET stored    == StoredNextAction(status, next_action_at)
           agency_id == _get_user_agency(uid)
           rowcount  == Cardinality({at \in rows : /\ at.agency_id = agency_id
                                                    /\ at.dpe_target_id = dpe_id
                                                    /\ at.status # status})
       IN IF rowcount = 0 THEN fail("NotFound", "Target absent de l'overlay agence")
          ELSE [kind   |-> "ok", detail |-> "",
                rows   |-> UpdateRows(rows, agency_id, dpe_id, status, stored, now),
                stored |-> stored]

\* update_dpe_status_result that looks the agent up before it validates the
\* payload
update_dpe_status_result_lookup_first(rows, now, dpe_id, status, next_action_at, uid) ==
  LET fail(kind, detail) ==
        [kind |-> kind, detail |-> detail, rows |-> rows, stored |-> NULL] IN
  IF ~_user_exists(uid) THEN fail("NotFound", "User inconnu")
  ELSE IF status \notin allowed THEN fail("InvalidArgument", "Statut invalide")
  ELSE IF status = "done_repasser" /\ next_action_at = NULL
    THEN fail("InvalidArgument", "next_action_at requis pour done_repasser")
  ELSE LET stored    == StoredNextAction(status, next_action_at)
           agency_id == _get_user_agency(uid)
           rowcount  == Cardinality({at \in rows : at.agency_id = agency_id
                                                    /\ at.dpe_target_id = dpe_id})
       IN IF rowcount = 0 THEN fail("NotFound", "Target absent de l'overlay agence")
          ELSE [kind   |-> "ok", detail |-> "",
                rows   |-> UpdateRows(rows, agency_id, dpe_id, status, stored, now),
                stored |-> stored]

\* the outcome of the handler on overlay table rows: what it answers and the
\* table it leaves (the transaction is not committed when it raises)
update_dpe_status_result(rows, now, dpe_id, status, next_action_at, uid) ==
  LET fail(kind, detail) ==
        [kind |-> kind, detail |-> detail, rows |-> rows, stored |-> NULL] IN
  IF status \notin allowed THEN fail("InvalidArgument", "Statut invalide")
  ELSE IF status = "done_repasser" /\ next_action_at = NULL
    THEN fail("InvalidArgument", "next_action_at requis pour done_repasser")
  ELSE IF ~_user_exists(uid) THEN fail("NotFound", "User inconnu")
  ELSE LET stored    == StoredNextAction(status, next_action_at)
           agency_id == _get_user_agency(uid)
           rowcount  == Cardinality({at \in rows : at.agency_id = agency_id
                                                    /\ at.dpe_target_id = dpe_id})
       IN IF rowcount = 0 THEN fail("NotFound", "Target absent de l'overlay agence")
          ELSE [kind   |-> "ok", detail |-> "",
                rows   |-> UpdateRows(rows, agency_id, dpe_id, status, stored, now),
                stored |-> stored]

update_dpe_status(dpe_id, status, next_action_at, user_id) ==
  \E uid \in {_resolve_user_id(user_id)} :
    \E r \in {update_dpe_status_result(agency_targets, clock, dpe_id, status,
                                       next_action_at, uid)} :
      /\ agency_targets' = r.rows
      /\ resp' = [Resp("update_dpe_status", r.kind) EXCEPT
                    !.uid = uid, !.dpe_id = dpe_id, !.status = status,
                    !.detail = r.detail,
                    !.payload_next_action_at = next_action_at,
                    !.next_action_at = r.stored]
      /\ UNCHANGED <<users, dpe_targets, user_territories, zones, agency_zones, clock>>

\* time passes between two requests
Tick ==
  /\ clock < MaxClock
  /\ clock' = clock + 1
  /\ UNCHANGED <<db, resp>>

-----------------------------------------------------------------------------
(* POST /route/auto *)

\* RouteWhere without the clause at.status = 'non_traite'
RouteWhere_any_status(at, zone_id, uid, agency_id) ==
  /\ at.dpe_target_id \in DOMAIN dpe_targets
  /\ zone_id \in DOMAIN zones
  /\ uid \in DOMAIN users
  /\ at.agency_id = agency_id
  /\ ST_Contains(zones[zone_id], dpe_targets[at.dpe_target_id].geom)
  /\ \E ut \in user_territories :
        /\ ut.user_id = uid
        /\ ST_Intersects(ut.geom, dpe_targets[at.dpe_target_id].geom)
  /\ \/ users[uid].min_surface_m2 = NULL
     \/ SqlGe(dpe_targets[at.dpe_target_id].surface_m2, users[uid].min_surface_m2)
  /\ \/ users[uid].max_surface_m2 = NULL
     \/ SqlLe(dpe_targets[at.dpe_target_id].surface_m2, users[uid].max_surface_m2)

\* the WHERE clause of route_auto's query for one agency_targets row
RouteWhere(at, zone_id, uid, agency_id) ==
  /\ at.dpe_target_id \in DOMAIN dpe_targets
  /\ zone_id \in DOMAIN zones
  /\ uid \in DOMAIN users
  /\ at.agency_id = agency_id
  /\ at.status = "non_traite"
  /\ ST_Contains(zones[zone_id], dpe_targets[at.dpe_target_id].geom)
  /\ \E ut \in user_territories :
        /\ ut.user_id = uid
        /\ ST_Intersects(ut.geom, dpe_targets[at.dpe_target_id].geom)
  /\ \/ users[uid].min_surface_m2 = NULL
     \/ SqlGe(dpe_targets[at.dpe_target_id].surface_m2, users[uid].min_surface_m2)
  /\ \/ users[uid].max_surface_m2 = NULL
     \/ SqlLe(dpe_targets[at.dpe_target_id].surface_m2, users[uid].max_surface_m2)

\* RouteRows whose query keeps located targets only: the LIMIT applies after
\* the targets without latitude or longitude are gone
RouteRows_located_first(zone_id, uid, agency_id) ==
  LET ids   == {at.dpe_target_id :
                  at \in {x \in agency_targets :
                            /\ RouteWhere(x, zone_id, uid, agency_id)
                            /\ dpe_targets[x.dpe_target_id].latitude # NULL
                            /\ dpe_targets[x.dpe_target_id].longitude # NULL}}
      order == Limit(SortDesc(ids), POOL_MAX)
  IN [k \in 1..Len(order) |->
        [id  |-> order[k],
         lat |-> dpe_targets[order[k]].latitude,
         lng |-> dpe_targets[order[k]].longitude]]

\* the query of route_auto: ORDER BY t.id DESC LIMIT POOL_MAX, as rows
\* (id, latitude, longitude)
RouteRows(zone_id, uid, agency_id) ==
  LET ids   == {at.dpe_target_id :
                  at \in {x \in agency_targets : RouteWhere(x, zone_id, uid, agency_id)}}
      order == Limit(SortDesc(ids), POOL_MAX)
  IN [k \in 1..Len(order) |->
        [id  |-> order[k],
         lat |-> dpe_targets[order[k]].latitude,
         lng |-> dpe_targets[order[k]].longitude]]

\* points = [r for r in rows if r[1] is not None and r[2] is not None]
Points(rows) == SelectSeq(rows, LAMBDA r : r.lat # NULL /\ r.lng # NULL)

dist2(a, b) ==
  LET dx == a.lng - b.lng
      dy == a.lat - b.lat
  IN dx * dx + dy * dy

RECURSIVE Scan_last_of_ties(_, _, _, _, _)
\* Scan whose test is d <= best_d
Scan_last_of_ties(last, remaining, i, best_i, best_d) ==
  IF i > Len(remaining) THEN best_i
  ELSE LET d == dist2(last, remaining[i])
       IN IF d <= best_d THEN Scan_last_of_ties(last, remaining, i + 1, i, d)
          ELSE Scan_last_of_ties(last, remaining, i + 1, best_i, best_d)

RECURSIVE Scan(_, _, _, _, _)
\* for i in range(1, len(remaining)): if d < best_d, keep i; indexes from 1
Scan(last, remaining, i, best_i, best_d) ==
  IF i > Len(remaining) THEN best_i
  ELSE LET d == dist2(last, remaining[i])
       IN IF d < best_d THEN Scan(last, remaining, i + 1, i, d)
          ELSE Scan(last, remaining, i + 1, best_i, best_d)

\* remaining.pop(i): the list without its i-th element
Pop(seq, i) == SubSeq(seq, 1, i - 1) \o SubSeq(seq, i + 1, Len(seq))

RECURSIVE Greedy_one_more(_, _)
\* Greedy whose loop tests len(ordered) <= TOUR_MAX
Greedy_one_more(ordered, remaining) ==
  IF remaining = <<>> \/ ~(Len(ordered) <= TOUR_MAX) THEN ordered
  ELSE LET last   == ordered[Len(ordered)]
           best_i == Scan(last, remaining, 2, 1, dist2(last, remaining[1]))
       IN Greedy_one_more(Append(ordered, remaining[best_i]), Pop(remaining, best_i))

RECURSIVE Greedy(_, _)
\* while remaining and len(ordered) < TOUR_MAX: append the nearest to the last
Greedy(ordered, remaining) ==
  IF remaining = <<>> \/ ~(Len(ordered) < TOUR_MAX) THEN ordered
  ELSE LET last   == ordered[Len(ordered)]
           best_i == Scan(last, remaining, 2, 1, dist2(last, remaining[1]))
       IN Greedy(Append(ordered, remaining[best_i]), Pop(remaining, best_i))

\* the tour of the rows the query returned
Tour(rows) ==
  LET points == Points(rows)
  IN IF rows = <<>> \/ points = <<>> THEN <<>>
     ELSE Greedy(<<points[1]>>, Tail(points))

\* RouteAnswer that draws a path as soon as there is one stop
RouteAnswer_path_from_one(uid, ordered) ==
  [Resp("route_auto", "ok") EXCEPT
     !.uid = uid,
     !.target_ids_ordered = [k \in 1..Len(ordered) |-> ordered[k].id],
     !.polyline = IF Len(ordered) >= 1
                  THEN [present |-> TRUE,
                        coordinates |-> [k \in 1..Len(ordered) |->
                                           <<ordered[k].lng, ordered[k].lat>>]]
                  ELSE [present |-> FALSE, coordinates |-> <<>>]]

\* ids, coords and the polyline of an ordered tour
RouteAnswer(uid, ordered) ==
  [Resp("route_auto", "ok") EXCEPT
     !.uid = uid,
     !.target_ids_ordered = [k \in 1..Len(ordered) |-> ordered[k].id],
     !.polyline = IF Len(ordered) >= 2
                  THEN [present |-> TRUE,
                        coordinates |-> [k \in 1..Len(ordered) |->
                                           <<ordered[k].lng, ordered[k].lat>>]]
                  ELSE [present |-> FALSE, coordinates |-> <<>>]]

\* route_auto_response where every "no data" case, the unknown agent included,
\* collapses to the empty tour
route_auto_response_no_404(uid) ==
  IF ~_user_exists(uid) THEN [Resp("route_auto", "ok") EXCEPT !.uid = uid]
  ELSE IF ~_user_has_territory(uid) THEN [Resp("route_auto", "ok") EXCEPT !.uid = uid]
  ELSE LET agency_id == _get_user_agency(uid)
           zone_id   == _get_primary_agency_zone(agency_id)
       IN IF zone_id = NULL THEN [Resp("route_auto", "ok") EXCEPT !.uid = uid]
          ELSE RouteAnswer(uid, Tour(RouteRows(zone_id, uid, agency_id)))

route_auto_response(uid) ==
  IF ~_user_exists(uid) THEN [Resp("route_auto", "NotFound") EXCEPT !.uid = uid]
  ELSE IF ~_user_has_territory(uid) THEN [Resp("route_auto", "ok") EXCEPT !.uid = uid]
  ELSE LET agency_id == _get_user_agency(uid)
           zone_id   == _get_primary_agency_zone(agency_id)
       IN IF zone_id = NULL THEN [Resp("route_auto", "ok") EXCEPT !.uid = uid]
          ELSE RouteAnswer(uid, Tour(RouteRows(zone_id, uid, agency_id)))

route_auto(user_id) ==
  /\ resp' = route_auto_response(_resolve_user_id(user_id))
  /\ UNCHANGED <<db, clock>>

-----------------------------------------------------------------------------
(* Admin: micro-territories and agency zones *)

\* the checks made before the database is opened; "ok" when all pass
AdminChecks(admin_user_id, name, geojson) ==
  IF ~_is_admin(_resolve_user_id(admin_user_id)) THEN "Forbidden"
  ELSE IF ~_validate_geojson_polygon(geojson) THEN "InvalidArgument"
  ELSE IF Strip(name) = "" THEN "InvalidArgument"
  ELSE "ok"

\* POST /admin/users/{user_id}/territory: delete the user's rows, insert one
admin_upsert_user_territory(user_id, name, geojson, admin_user_id) ==
  LET checks == AdminChecks(admin_user_id, name, geojson)
      kind   == IF checks # "ok" THEN checks
                ELSE IF ~_user_exists(user_id) THEN "NotFound" ELSE "ok"
  IN /\ user_territories' =
          IF kind # "ok" THEN user_territories
          ELSE {ut \in user_territories : ut.user_id # user_id}
               \cup {[user_id   |-> user_id,
                       agency_id |-> _get_user_agency(user_id),
                       geom      |-> geojson]}
     /\ resp' = [Resp("admin_upsert_user_territory", kind) EXCEPT !.uid = user_id]
     /\ UNCHANGED <<users, dpe_targets, agency_targets, zones, agency_zones, clock>>

\* DELETE /admin/users/{user_id}/territory
admin_delete_user_territory(user_id, admin_user_id) ==
  LET kind == IF ~_is_admin(_resolve_user_id(admin_user_id)) THEN "Forbidden" ELSE "ok"
  IN /\ user_territories' =
          IF kind # "ok" THEN user_territories
          ELSE {ut \in user_territories : ut.user_id # user_id}
     /\ resp' = [Resp("admin_delete_user_territory", kind) EXCEPT !.uid = user_id]
     /\ UNCHANGED <<users, dpe_targets, agency_targets, zones, agency_zones, clock>>

\* DELETE FROM agency_zones WHERE agency_id = %s; INSERT (agency_id, zid)
Relink(agency_id, zid) ==
  {az \in agency_zones : az.agency_id # agency_id}
  \cup {[agency_id |-> agency_id, zone_id |-> zid]}

\* POST /admin/zone: create the agency's zone, or rewrite the linked one in place
admin_upsert_bu_zone(agency_id, name, geojson, admin_user_id) ==
  LET checks           == AdminChecks(admin_user_id, name, geojson)
      existing_zone_id == _get_primary_agency_zone(agency_id)
  IN /\ IF checks # "ok"
        THEN /\ resp' = Resp("admin_upsert_bu_zone", checks)
             /\ UNCHANGED <<zones, agency_zones>>
        ELSE IF existing_zone_id = NULL
        THEN /\ zones' = Append(zones, geojson)
             /\ agency_zones' = Relink(agency_id, Len(zones) + 1)
             /\ resp' = Resp("admin_upsert_bu_zone", "ok")
        ELSE IF existing_zone_id \notin DOMAIN zones
        THEN /\ resp' = Resp("admin_upsert_bu_zone", "NotFound")
             /\ UNCHANGED <<zones, agency_zones>>
        ELSE /\ zones' = [zones EXCEPT ![existing_zone_id] = geojson]
             /\ agency_zones' = Relink(agency_id, existing_zone_id)
             /\ resp' = Resp("admin_upsert_bu_zone", "ok")
     /\ UNCHANGED <<users, dpe_targets, agency_targets, user_territories, clock>>

\* admin_delete_bu_zone that also clears the geometry of the zones rows it
\* unlinks
admin_delete_bu_zone_cascade(agency_id, admin_user_id) ==
  LET kind == IF ~_is_admin(_resolve_user_id(admin_user_id)) THEN "Forbidden" ELSE "ok"
  IN /\ agency_zones' =
          IF kind # "ok" THEN agency_zones
          ELSE {az \in agency_zones : az.agency_id # agency_id}
     /\ zones' =
          IF kind # "ok" THEN zones
          ELSE [z \in DOMAIN zones |->
                  IF \E az \in agency_zones : az.agency_id = agency_id /\ az.zone_id = z
                  THEN {} ELSE zones[z]]
     /\ resp' = Resp("admin_delete_bu_zone", kind)
     /\ UNCHANGED <<users, dpe_targets, agency_targets, user_territories, clock>>

\* DELETE /admin/zone: the association only, the zones row stays
admin_delete_bu_zone(agency_id, admin_user_id) ==
  LET kind == IF ~_is_admin(_resolve_user_id(admin_user_id)) THEN "Forbidden" ELSE "ok"
  IN /\ agency_zones' =
          IF kind # "ok" THEN agency_zones
          ELSE {az \in agency_zones : az.agency_id # agency_id}
     /\ resp' = Resp("admin_delete_bu_zone", kind)
     /\ UNCHANGED <<users, dpe_targets, agency_targets, user_territories, zones, clock>>

-----------------------------------------------------------------------------
(* The admin's micro-territory requests, one SQL statement at a time.  Each  *)
(* request runs on its own connection (db.get_db), in a transaction of the   *)
(* default isolation level, READ COMMITTED: a statement reads the rows       *)
(* committed when it runs, a transaction's own writes stay private until     *)
(* conn.commit(), and a DELETE waits while another transaction holds an      *)
(* uncommitted delete of a row it would delete.  No statement of main.py     *)
(* locks the users row or the table, and none handles a uniqueness error.    *)

\* the other connections' uncommitted deletes
LockedElsewhere(p) == UNION {txn[q].del : q \in Procs \ {p}}

\* POST /admin/users/{user_id}/territory arrives on connection p: the checks
\* made before get_db()
upsert_territory_request(p, user_id, name, geojson, admin_user_id) ==
  /\ txn[p].op = "idle"
  /\ LET checks == AdminChecks(admin_user_id, name, geojson)
     IN IF checks # "ok"
        THEN /\ resp' = [Resp("admin_upsert_user_territory", checks) EXCEPT
                           !.uid = user_id, !.geom = geojson]
             /\ txn' = txn
        ELSE /\ txn' = [txn EXCEPT ![p] =
                    [NoCall EXCEPT !.op = "admin_upsert_user_territory",
                                   !.pc = "select_user",
                                   !.uid = user_id, !.geom = geojson]]
             /\ resp' = resp
  /\ UNCHANGED <<db, clock, marked>>

\* SELECT agency_id FROM users WHERE id = user_id; 404 when there is no row
upsert_territory_select_user(p) ==
  /\ txn[p].op = "admin_upsert_user_territory"
  /\ txn[p].pc = "select_user"
  /\ IF ~_user_exists(txn[p].uid)
     THEN /\ resp' = [Resp("admin_upsert_user_territory", "NotFound") EXCEPT
                        !.uid = txn[p].uid, !.geom = txn[p].geom]
          /\ txn' = [txn EXCEPT ![p] = NoCall]
     ELSE /\ txn' = [txn EXCEPT ![p].agency_id = _get_user_agency(txn[p].uid),
                                ![p].pc = "delete"]
          /\ resp' = resp
  /\ UNCHANGED <<db, clock, marked>>

\* DELETE /admin/users/{user_id}/territory arrives on connection p
delete_territory_request(p, user_id, admin_user_id) ==
  /\ txn[p].op = "idle"
  /\ IF ~_is_admin(_resolve_user_id(admin_user_id))
     THEN /\ resp' = [Resp("admin_delete_user_territory", "Forbidden") EXCEPT
                        !.uid = user_id]
          /\ txn' = txn
     ELSE /\ txn' = [txn EXCEPT ![p] =
                 [NoCall EXCEPT !.op = "admin_delete_user_territory",
                                !.pc = "delete", !.uid = user_id]]
          /\ resp' = resp
  /\ UNCHANGED <<db, clock, marked>>

\* DELETE FROM user_territories WHERE user_id = %s, of either handler: the
\* committed rows of the user, once no other transaction holds one of them
territory_delete(p) ==
  /\ txn[p].op \in {"admin_upsert_user_territory", "admin_delete_user_territory"}
  /\ txn[p].pc = "delete"
  /\ LET rows == {ut \in user_territories : ut.user_id = txn[p].uid}
     IN /\ rows \cap LockedElsewhere(p) = {}
        /\ txn' = [txn EXCEPT
                     ![p].del = rows,
                     ![p].pc = IF txn[p].op = "admin_upsert_user_territory"
                               THEN "insert" ELSE "commit"]
  /\ UNCHANGED <<db, clock, resp, marked>>

\* INSERT INTO user_territories (user_id, agency_id, name, geom) VALUES (...)
upsert_territory_insert(p) ==
  /\ txn[p].op = "admin_upsert_user_territory"
  /\ txn[p].pc = "insert"
  /\ txn' = [txn EXCEPT
               ![p].ins = {[user_id   |-> txn[p].uid,
                            agency_id |-> txn[p].agency_id,
                            geom      |-> txn[p].geom]},
               ![p].pc = "commit"]
  /\ UNCHANGED <<db, clock, resp, marked>>

\* conn.commit() of either handler, and the response
territory_commit(p) ==
  /\ txn[p].op \in {"admin_upsert_user_territory", "admin_delete_user_territory"}
  /\ txn[p].pc = "commit"
  /\ user_territories' = (user_territories \ txn[p].del) \cup txn[p].ins
  /\ resp' = [Resp(txn[p].op, "ok") EXCEPT !.uid = txn[p].uid, !.geom = txn[p].geom]
  /\ txn' = [txn EXCEPT ![p] = NoCall]
  /\ UNCHANGED <<users, dpe_targets, agency_targets, zones, agency_zones, clock, marked>>

-----------------------------------------------------------------------------
(* get_dpe and route_auto, one SQL statement at a time: the agency lookup,   *)
(* the territory check, the zone lookup and the query are four statements of *)
(* one READ COMMITTED transaction, each reading the rows committed when it   *)
(* runs.  The field results of the request is history: the answers the       *)
(* handler gives on each state committed since the request arrived, added    *)
(* when a commit replaces the state and when the request returns.            *)

ReadOps == {"get_dpe", "route_auto"}

\* the handler's answer on the tables as they are
Answer(op, uid) ==
  IF op = "get_dpe" THEN get_dpe_response(uid) ELSE route_auto_response(uid)

\* the request has returned: the connection is closed, the history stays,
\* with the answer on the state committed at the return
Returned(p) ==
  [NoCall EXCEPT !.results = txn[p].results \cup {Answer(txn[p].op, txn[p].uid)}]

\* GET /dpe or POST /route/auto arrives on connection p
read_request(p, op, user_id) ==
  /\ txn[p].op = "idle"
  /\ txn' = [txn EXCEPT ![p] =
               [NoCall EXCEPT !.op = op, !.pc = "agency",
                              !.uid = _resolve_user_id(user_id)]]
  /\ UNCHANGED <<db, clock, resp, marked>>

\* agency_id = _get_user_agency(cur, uid): 404 when the user has no row
read_agency(p) ==
  /\ txn[p].op \in ReadOps
  /\ txn[p].pc = "agency"
  /\ IF ~_user_exists(txn[p].uid)
     THEN /\ resp' = [Resp(txn[p].op, "NotFound") EXCEPT !.uid = txn[p].uid]
          /\ txn' = [txn EXCEPT ![p] = Returned(p)]
     ELSE /\ txn' = [txn EXCEPT ![p].agency_id = _get_user_agency(txn[p].uid),
                                ![p].pc = "territory"]
          /\ resp' = resp
  /\ UNCHANGED <<db, clock, marked>>

\* if not _user_has_territory(cur, uid): the empty answer
read_territory(p) ==
  /\ txn[p].op \in ReadOps
  /\ txn[p].pc = "territory"
  /\ IF ~_user_has_territory(txn[p].uid)
     THEN /\ resp' = [Resp(txn[p].op, "ok") EXCEPT !.uid = txn[p].uid]
          /\ txn' = [txn EXCEPT ![p] = Returned(p)]
     ELSE /\ txn' = [txn EXCEPT ![p].pc = "zone"]
          /\ resp' = resp
  /\ UNCHANGED <<db, clock, marked>>

\* zone_id = _get_primary_agency_zone(cur, agency_id): the empty answer when
\* the agency has no link
read_zone(p) ==
  /\ txn[p].op \in ReadOps
  /\ txn[p].pc = "zone"
  /\ LET zone_id == _get_primary_agency_zone(txn[p].agency_id)
     IN IF zone_id = NULL
        THEN /\ resp' = [Resp(txn[p].op, "ok") EXCEPT !.uid = txn[p].uid]
             /\ txn' = [txn EXCEPT ![p] = Returned(p)]
        ELSE /\ txn' = [txn EXCEPT ![p].zone_id = zone_id, ![p].pc = "query"]
             /\ resp' = resp
  /\ UNCHANGED <<db, clock, marked>>

\* the query, with the zone_id and the agency_id read before, and the answer
\* built from its rows
read_query(p) ==
  /\ txn[p].op \in ReadOps
  /\ txn[p].pc = "query"
  /\ resp' = IF txn[p].op = "get_dpe"
             THEN [Resp("get_dpe", "ok") EXCEPT
                     !.uid = txn[p].uid,
                     !.items = DpeItems(txn[p].zone_id, txn[p].uid, txn[p].agency_id)]
             ELSE RouteAnswer(txn[p].uid,
                              Tour(RouteRows(txn[p].zone_id, txn[p].uid, txn[p].agency_id)))
  /\ txn' = [txn EXCEPT ![p] = Returned(p)]
  /\ UNCHANGED <<db, clock, marked>>

-----------------------------------------------------------------------------
(* update_dpe_status, one SQL statement at a time, on two connections.  The  *)
(* UPDATE writes status, next_action_at and updated_at of the rows it        *)
(* matches in one statement; it waits while another transaction holds an     *)
(* uncommitted update of a row it matches, and then writes the committed     *)
(* row.  A call that has returned leaves its outcome in pc; base is history: *)
(* the overlay rows when the two calls arrived; last tells which call        *)
(* committed last.                                                           *)

Outcomes == {"ok", "NotFound", "InvalidArgument"}

\* POST /dpe/{dpe_id}/status arrives on connection p: the two checks made
\* before get_db()
StatusCall(dpe_id, status, next_action_at, user_id) ==
  [NoCall EXCEPT
     !.op = "update_dpe_status",
     !.pc = IF \/ status \notin allowed
               \/ status = "done_repasser" /\ next_action_at = NULL
            THEN "InvalidArgument" ELSE "agency",
     !.uid = _resolve_user_id(user_id),
     !.dpe_id = dpe_id, !.status = status, !.next_action_at = next_action_at,
     !.base = agency_targets]

\* two requests arrive, c1 on connection 1 and c2 on connection 2, each a
\* tuple (dpe_id, status, next_action_at, user_id)
status_requests(c1, c2) ==
  /\ \A p \in Procs : txn[p].op = "idle"
  /\ txn' = (1 :> StatusCall(c1[1], c1[2], c1[3], c1[4])) @@
            (2 :> StatusCall(c2[1], c2[2], c2[3], c2[4]))
  /\ UNCHANGED <<db, clock, resp, marked>>

\* the response of connection p's request
StatusResp(p, kind, detail, stored) ==
  [Resp("update_dpe_status", kind) EXCEPT
     !.detail = detail,
     !.uid = txn[p].uid, !.dpe_id = txn[p].dpe_id, !.status = txn[p].status,
     !.payload_next_action_at = txn[p].next_action_at,
     !.next_action_at = stored]

\* agency_id = _get_user_agency(cur, uid): 404 when the user has no row
status_agency(p) ==
  /\ txn[p].op = "update_dpe_status"
  /\ txn[p].pc = "agency"
  /\ IF ~_user_exists(txn[p].uid)
     THEN /\ txn' = [txn EXCEPT ![p].pc = "NotFound"]
          /\ resp' = StatusResp(p, "NotFound", "User inconnu", NULL)
     ELSE /\ txn' = [txn EXCEPT ![p].agency_id = _get_user_agency(txn[p].uid),
                                ![p].pc = "update"]
          /\ resp' = resp
  /\ UNCHANGED <<db, clock, marked>>

\* status_update that writes the status and leaves next_action_at as it is
status_update_keeps_follow_up(p) ==
  /\ txn[p].op = "update_dpe_status"
  /\ txn[p].pc = "update"
  /\ LET rows == {at \in agency_targets : /\ at.agency_id = txn[p].agency_id
                                          /\ at.dpe_target_id = txn[p].dpe_id}
     IN /\ \A at \in rows, l \in LockedElsewhere(p) :
             ~(l.agency_id = at.agency_id /\ l.dpe_target_id = at.dpe_target_id)
        /\ IF rows = {}
           THEN /\ txn' = [txn EXCEPT ![p].pc = "NotFound"]
                /\ resp' = StatusResp(p, "NotFound",
                                        "Target absent de l'overlay agence", NULL)
           ELSE /\ txn' = [txn EXCEPT
                             ![p].del = rows,
                             ![p].ins = {[at EXCEPT !.status = txn[p].status,
                                                    !.updated_at = clock] : at \in rows},
                             ![p].pc = "commit"]
                /\ resp' = resp
  /\ UNCHANGED <<db, clock, marked>>

\* UPDATE agency_targets SET status, next_action_at, updated_at = now()
\* WHERE agency_id = %s AND dpe_target_id = %s; 404 when rowcount is 0
status_update(p) ==
  /\ txn[p].op = "update_dpe_status"
  /\ txn[p].pc = "update"
  /\ LET rows == {at \in agency_targets : /\ at.agency_id = txn[p].agency_id
                                          /\ at.dpe_target_id = txn[p].dpe_id}
     IN /\ \A at \in rows, l \in LockedElsewhere(p) :
             ~(l.agency_id = at.agency_id /\ l.dpe_target_id = at.dpe_target_id)
        /\ IF rows = {}
           THEN /\ txn' = [txn EXCEPT ![p].pc = "NotFound"]
                /\ resp' = StatusResp(p, "NotFound",
                                        "Target absent de l'overlay agence", NULL)
           ELSE /\ txn' = [txn EXCEPT
                             ![p].del = rows,
                             ![p].ins = UpdateRows(rows, txn[p].agency_id, txn[p].dpe_id,
                                          txn[p].status,
                                          StoredNextAction(txn[p].status,
                                                           txn[p].next_action_at),
                                          clock),
                             ![p].pc = "commit"]
                /\ resp' = resp
  /\ UNCHANGED <<db, clock, marked>>

\* conn.commit(), and the response
status_commit(p) ==
  /\ txn[p].op = "update_dpe_status"
  /\ txn[p].pc = "commit"
  /\ agency_targets' = (agency_targets \ txn[p].del) \cup txn[p].ins
  /\ txn' = [q \in Procs |->
               IF q = p
               THEN [txn[p] EXCEPT !.pc = "ok", !.del = {}, !.ins = {}, !.last = TRUE]
               ELSE [txn[q] EXCEPT !.last = FALSE]]
  /\ resp' = StatusResp(p, "ok", "", StoredNextAction(txn[p].status, txn[p].next_action_at))
  /\ UNCHANGED <<users, dpe_targets, user_territories, zones, agency_zones, clock, marked>>

-----------------------------------------------------------------------------
(* Specifications *)

\* a status request whose success with a status other than 'non_traite' is
\* remembered in marked
Marking(dpe_id, status, next_action_at, user_id) ==
  /\ update_dpe_status(dpe_id, status, next_action_at, user_id)
  /\ marked' = IF resp'.kind = "ok" /\ status # "non_traite"
               THEN marked \cup {<<_get_user_agency(resp'.uid), dpe_id>>}
               ELSE marked
  /\ UNCHANGED txn

CallerIds == UserIds \cup {NULL}      \* user_id query parameter, absent or given

ReadCallers == {1, 3}                 \* an agent of agency 1, and no user

\* (name, geojson, admin_user_id) of the admin payloads: every polygon sent
\* by the dev admin, and one request for each check that refuses
AdminPayloads ==
  {<<"T", g, NULL>> : g \in Geoms}
  \cup {<<"T", {1}, 2>>, <<"T", {}, NULL>>, <<" ", {1}, NULL>>}

AdminCallers == {NULL, 2}             \* the dev admin, or an agent

\* the zones table has room for the row the request would insert
ZoneRoom(agency_id, name, geojson, admin_user_id, max) ==
  (/\ AdminChecks(admin_user_id, name, geojson) = "ok"
   /\ _get_primary_agency_zone(agency_id) = NULL)
  => Len(zones) < max

\* a handler served from arrival to return with no other request in progress
\* leaves every connection idle; the history is kept where it is used
Alone == UNCHANGED <<txn, marked>>

Admin ==
  \/ \E u \in UserIds, p \in AdminPayloads :
       admin_upsert_user_territory(u, p[1], p[2], p[3]) /\ Alone
  \/ \E u \in UserIds, a \in AdminCallers :
       admin_delete_user_territory(u, a) /\ Alone
  \/ \E ag \in Agencies, p \in AdminPayloads :
       /\ ZoneRoom(ag, p[1], p[2], p[3], MaxZones)
       /\ admin_upsert_bu_zone(ag, p[1], p[2], p[3])
       /\ Alone
  \/ \E ag \in Agencies, a \in AdminCallers : admin_delete_bu_zone(ag, a) /\ Alone

Reads ==
  \/ \E u \in CallerIds : get_dpe(u) /\ Alone
  \/ \E u \in CallerIds : route_auto(u) /\ Alone

\* the whole service on the small catalog; agents mark the first and the last
\* target done or put them back to non_traite
Next ==
  \/ Admin
  \/ Reads
  \/ \E d \in {1, MaxTargets}, s \in {"done", "non_traite"}, u \in {1, 2} :
       update_dpe_status(d, s, NULL, u) /\ Alone

Spec == Init /\ [][Next]_vars

\* the status handler alone, on every kind of request, while time passes;
\* agency 2 has no overlay row for target MaxTargets
NextStatus ==
  \/ \E d \in {1, MaxTargets}, s \in StatusInputs, n \in FollowUps, u \in UserIds :
       update_dpe_status(d, s, n, u) /\ Alone
  \/ Tick /\ Alone

SpecStatus == Init /\ [][NextStatus]_vars

\* The tables once the admin has drawn a region for agency 1 and a
\* micro-territory for every agent, both over the whole plane, after an import
\* of n targets.
InitTour ==
  \E n \in 0..MaxTourTargets, seed \in Seeds :
    /\ users = UserTable(seed)
    /\ dpe_targets = Catalog(n, seed)
    /\ agency_targets = ImportOverlay(1, 1..n, 0) \cup ImportOverlay(2, (1..n) \cap {1, 2}, 0)
    /\ user_territories = {[user_id   |-> u,
                            agency_id |-> UserTable(seed)[u].agency_id,
                            geom      |-> {1, 2}] : u \in DOMAIN UserTable(seed)}
    /\ zones = <<{1, 2}>>
    /\ agency_zones = {[agency_id |-> 1, zone_id |-> 1]}
    /\ clock = 0
    /\ resp = NoResp
    /\ txn = [p \in Procs |-> NoCall]
    /\ marked = {}

\* tours on catalogs larger than the pool, while agent 1 processes targets and
\* the admin redraws agent 1's micro-territory
NextTour ==
  \/ \E u \in CallerIds : route_auto(u) /\ Alone
  \/ \E d \in {MaxTourTargets, MaxTourTargets - 1}, s \in {"done", "non_traite"} :
       Marking(d, s, NULL, 1)
  \/ \E g \in Geoms : admin_upsert_user_territory(1, "T", g, NULL) /\ Alone

SpecTour == InitTour /\ [][NextTour]_vars

\* the admin's micro-territory requests on two connections, their statements
\* interleaved
NextTerritory ==
  \/ \E p \in Procs, u \in UserIds, q \in AdminPayloads :
       upsert_territory_request(p, u, q[1], q[2], q[3])
  \/ \E p \in Procs : upsert_territory_select_user(p)
  \/ \E p \in Procs, u \in UserIds, a \in AdminCallers :
       delete_territory_request(p, u, a)
  \/ \E p \in Procs : territory_delete(p)
  \/ \E p \in Procs : upsert_territory_insert(p)
  \/ \E p \in Procs : territory_commit(p)

SpecTerritory == Init /\ [][NextTerritory]_vars

\* the admin's zone requests, one after the other
NextZones ==
  \/ \E ag \in Agencies, p \in AdminPayloads :
       /\ ZoneRoom(ag, p[1], p[2], p[3], MaxZoneRows)
       /\ admin_upsert_bu_zone(ag, p[1], p[2], p[3])
       /\ Alone
  \/ \E ag \in Agencies, a \in AdminCallers : admin_delete_bu_zone(ag, a) /\ Alone

SpecZones == Init /\ [][NextZones]_vars

\* a commit replaces the tables while connection p serves a read: the answer
\* on the state it replaces joins the history of the request
Seen(p) ==
  /\ IF txn[p].op \notin ReadOps THEN txn' = txn
     ELSE txn' = [txn EXCEPT ![p].results = @ \cup {Answer(txn[p].op, txn[p].uid)}]
  /\ UNCHANGED marked

\* a read on connection 1, statement by statement, while the admin's and the
\* agents' requests commit
NextRead ==
  \/ \E op \in ReadOps, u \in ReadCallers : read_request(1, op, u)
  \/ read_agency(1)
  \/ read_territory(1)
  \/ read_zone(1)
  \/ read_query(1)
  \/ \E g \in Geoms : admin_upsert_user_territory(1, "T", g, NULL) /\ Seen(1)
  \/ admin_delete_user_territory(1, NULL) /\ Seen(1)
  \/ \E g \in Geoms :
       /\ ZoneRoom(1, "T", g, NULL, MaxZones)
       /\ admin_upsert_bu_zone(1, "T", g, NULL)
       /\ Seen(1)
  \/ admin_delete_bu_zone(1, NULL) /\ Seen(1)
  \/ \E s \in {"done", "non_traite"} : update_dpe_status(1, s, NULL, 1) /\ Seen(1)

SpecRead == Init /\ [][NextRead]_vars

\* (dpe_id, status, next_action_at, user_id) of the status requests that run
\* side by side
StatusCalls ==
  {<<d, st, n, u>> : d \in {1, MaxTargets}, st \in {"done", "done_repasser", "ignore"},
                     n \in FollowUps, u \in UserIds}

\* pairs of status requests on two connections, their statements interleaved
NextWrite ==
  \/ \E c1, c2 \in StatusCalls : status_requests(c1, c2)
  \/ \E p \in Procs : status_agency(p)
  \/ \E p \in Procs : status_update(p)
  \/ \E p \in Procs : status_commit(p)

SpecWrite == Init /\ [][NextWrite]_vars

-----------------------------------------------------------------------------
(* The properties, stated on the tables and on the last response *)

Reading == resp.op \in {"get_dpe", "route_auto"}

KnownAgent(uid) == uid \in DOMAIN users

HasTerritory(uid) == \E ut \in user_territories : ut.user_id = uid

HasRegion(agency) == \E az \in agency_zones : az.agency_id = agency

\* the overlay rows of one (agency, target) pair
OverlayRows(agency, t) ==
  {at \in agency_targets : at.agency_id = agency /\ at.dpe_target_id = t}

InRegion(agency, t) ==
  \E az \in agency_zones :
    /\ az.agency_id = agency
    /\ az.zone_id \in DOMAIN zones
    /\ dpe_targets[t].geom # {}
    /\ \A c \in dpe_targets[t].geom : c \in zones[az.zone_id]

InTerritory(uid, t) ==
  \E ut \in user_territories :
    ut.user_id = uid /\ \E c \in dpe_targets[t].geom : c \in ut.geom

WithinSurfaceBounds(uid, t) ==
  LET surface == dpe_targets[t].surface_m2
      min     == users[uid].min_surface_m2
      max     == users[uid].max_surface_m2
  IN /\ min = NULL \/ (surface # NULL /\ surface >= min)
     /\ max = NULL \/ (surface # NULL /\ surface <= max)

\* the visibility rule of the specification, for an existing agent
Visible(uid, t) ==
  /\ InRegion(users[uid].agency_id, t)
  /\ InTerritory(uid, t)
  /\ WithinSurfaceBounds(uid, t)
  /\ OverlayRows(users[uid].agency_id, t) # {}

ItemIds == {resp.items[k].id : k \in 1..Len(resp.items)}

\* C1: for an existing agent with a micro-territory whose agency has a
\* region, get_dpe returns a target if and only if its footprint is contained
\* in the region, intersects the micro-territory, its surface is within the
\* agent's bounds and the agency has an overlay row for it; every returned
\* item carries the status and follow-up of that agency's overlay row.
C1_VisibleIff ==
  (/\ resp.op = "get_dpe"
   /\ KnownAgent(resp.uid)
   /\ HasTerritory(resp.uid)
   /\ HasRegion(users[resp.uid].agency_id))
  => /\ resp.kind = "ok"
     /\ ItemIds \subseteq DOMAIN dpe_targets
     /\ \A t \in DOMAIN dpe_targets : t \in ItemIds <=> Visible(resp.uid, t)
     /\ \A k \in 1..Len(resp.items) :
          \A at \in OverlayRows(users[resp.uid].agency_id, resp.items[k].id) :
            /\ resp.items[k].status = at.status
            /\ resp.items[k].next_action_at = at.next_action_at

\* an agent sees one target with his own agency's status while another agency
\* holds another status for it, and one target of his overlay is filtered out
C1_Witness ==
  /\ resp.op = "get_dpe"
  /\ KnownAgent(resp.uid)
  /\ \E k \in 1..Len(resp.items) :
       \E other \in agency_targets :
         /\ other.agency_id # users[resp.uid].agency_id
         /\ other.dpe_target_id = resp.items[k].id
         /\ other.status # resp.items[k].status
  /\ \E t \in DOMAIN dpe_targets :
       /\ t \notin ItemIds
       /\ OverlayRows(users[resp.uid].agency_id, t) # {}

\* C2: an existing agent without micro-territory gets the empty list from
\* get_dpe and the empty tour without path from route_auto, whatever the
\* region, the overlay, the catalog and the surface bounds are.
C2_NoTerritoryNothing ==
  (Reading /\ KnownAgent(resp.uid) /\ ~HasTerritory(resp.uid))
  => /\ resp.kind = "ok"
     /\ resp.items = <<>>
     /\ resp.target_ids_ordered = <<>>
     /\ ~resp.polyline.present

\* the agent has no micro-territory while the agency's region contains a
\* target of its overlay that passes the agent's surface filter
C2_Witness ==
  /\ Reading
  /\ KnownAgent(resp.uid)
  /\ ~HasTerritory(resp.uid)
  /\ \E t \in DOMAIN dpe_targets :
       /\ InRegion(users[resp.uid].agency_id, t)
       /\ WithinSurfaceBounds(resp.uid, t)
       /\ \E at \in OverlayRows(users[resp.uid].agency_id, t) : at.status = "non_traite"

\* C3: get_dpe and route_auto answer NotFound exactly when the agent does not
\* exist; for an existing agent a missing micro-territory or a missing region
\* is no error and gives the empty result.
C3_NotFoundIffUnknownAgent ==
  Reading
  => /\ resp.kind \in {"ok", "NotFound"}
     /\ resp.kind = "NotFound" <=> ~KnownAgent(resp.uid)
     /\ (/\ KnownAgent(resp.uid)
         /\ ~HasTerritory(resp.uid) \/ ~HasRegion(users[resp.uid].agency_id))
        => /\ resp.items = <<>>
           /\ resp.target_ids_ordered = <<>>
           /\ ~resp.polyline.present

\* an unknown agent asks for a tour while territories and regions exist
C3_Witness ==
  /\ resp.op = "route_auto"
  /\ resp.kind = "NotFound"
  /\ ~KnownAgent(resp.uid)
  /\ user_territories # {}
  /\ agency_zones # {}

Updating == resp.op = "update_dpe_status"

\* the request is refused by the validation of the status handler
BadArguments(status, next_action_at) ==
  \/ status \notin {"non_traite", "done", "ignore", "done_repasser"}
  \/ status = "done_repasser" /\ next_action_at = NULL

\* C4: from the overlay rows of the import, after any sequence of status
\* requests, a row has a follow-up timestamp if and only if its status is
\* done_repasser; a successful request with another status leaves the row
\* without follow-up even when the payload carried one.
C4_FollowUpIffRepasser ==
  /\ \A at \in agency_targets :
       at.next_action_at # NULL <=> at.status = "done_repasser"
  /\ (Updating /\ resp.kind = "ok")
     => /\ OverlayRows(users[resp.uid].agency_id, resp.dpe_id) # {}
        /\ \A at \in OverlayRows(users[resp.uid].agency_id, resp.dpe_id) :
             /\ at.status = resp.status
             /\ at.next_action_at =
                  IF resp.status = "done_repasser" THEN resp.payload_next_action_at
                  ELSE NULL

\* a request for done that carried a timestamp succeeded, while another row
\* holds a follow-up
C4_Witness ==
  /\ Updating
  /\ resp.kind = "ok"
  /\ resp.status = "done"
  /\ resp.payload_next_action_at # NULL
  /\ \E at \in agency_targets : at.status = "done_repasser" /\ at.next_action_at # NULL

\* C5: a status outside the four values, and done_repasser without a
\* timestamp, are answered InvalidArgument, and the request changes no overlay
\* row: the status is not replaced by a default.
C5_InvalidArgument ==
  [][(resp'.op = "update_dpe_status"
      /\ BadArguments(resp'.status, resp'.payload_next_action_at))
     => (resp'.kind = "InvalidArgument" /\ agency_targets' = agency_targets)]_vars

\* done_repasser without timestamp is refused for an existing agent on a row
\* that an earlier request had set to done
C5_Witness ==
  /\ Updating
  /\ resp.kind = "InvalidArgument"
  /\ resp.status = "done_repasser"
  /\ resp.payload_next_action_at = NULL
  /\ KnownAgent(resp.uid)
  /\ \E at \in OverlayRows(users[resp.uid].agency_id, resp.dpe_id) : at.status = "done"

OverlayKeys == {<<at.agency_id, at.dpe_target_id>> : at \in agency_targets}

\* C6: a valid request of an existing agent for a target without overlay row
\* in his agency is answered NotFound, and no request ever changes the set of
\* (agency, target) pairs that have an overlay row.
C6_NoAutoCreate ==
  [][/\ OverlayKeys' = OverlayKeys
     /\ (/\ resp'.op = "update_dpe_status"
         /\ ~BadArguments(resp'.status, resp'.payload_next_action_at)
         /\ resp'.uid \in DOMAIN users
         /\ <<users[resp'.uid].agency_id, resp'.dpe_id>> \notin OverlayKeys)
        => resp'.kind = "NotFound"]_vars

\* NotFound for an agent whose agency has no row for the target while another
\* agency has one
C6_Witness ==
  /\ Updating
  /\ resp.kind = "NotFound"
  /\ KnownAgent(resp.uid)
  /\ OverlayRows(users[resp.uid].agency_id, resp.dpe_id) = {}
  /\ \E at \in agency_targets : at.dpe_target_id = resp.dpe_id

\* the row the last successful status request was about
Keyed(at) ==
  /\ resp'.op = "update_dpe_status"
  /\ resp'.kind = "ok"
  /\ at.agency_id = users[resp'.uid].agency_id
  /\ at.dpe_target_id = resp'.dpe_id

\* C7: a successful status request changes only the overlay row of (the
\* agent's agency, the target): every other row keeps its status, follow-up
\* and updated_at, and the catalog, the regions and the micro-territories are
\* unchanged.
C7_OnlyKeyedRow ==
  [][/\ \A at \in agency_targets : at \in agency_targets' \/ Keyed(at)
     /\ \A at \in agency_targets' : at \in agency_targets \/ Keyed(at)
     /\ resp'.op = "update_dpe_status"
        => UNCHANGED <<users, dpe_targets, user_territories, zones, agency_zones>>]_vars

\* the agent's row was rewritten now, while another agency's row for the same
\* target keeps another status and an older updated_at
C7_Witness ==
  /\ Updating
  /\ resp.kind = "ok"
  /\ \E mine \in OverlayRows(users[resp.uid].agency_id, resp.dpe_id) :
       \E other \in agency_targets :
         /\ other.agency_id # mine.agency_id
         /\ other.dpe_target_id = mine.dpe_target_id
         /\ other.status \notin {mine.status, "non_traite"}
         /\ other.updated_at < mine.updated_at

\* status and follow-up of every overlay row
StatusView(rows) ==
  {<<at.agency_id, at.dpe_target_id, at.status, at.next_action_at>> : at \in rows}

\* C8: repeating a status request with the same arguments, now or later, gives
\* the same kind of answer, and leaves every overlay row with the status and
\* follow-up the first request left.
C8_Idempotent ==
  Updating
  => \A now \in clock..MaxClock :
       LET again == update_dpe_status_result(agency_targets, now, resp.dpe_id,
                      resp.status, resp.payload_next_action_at, resp.uid)
       IN /\ again.kind = resp.kind
          /\ StatusView(again.rows) = StatusView(agency_targets)

\* a successful done_repasser request that can be repeated at a later instant
C8_Witness ==
  /\ Updating
  /\ resp.kind = "ok"
  /\ resp.status = "done_repasser"
  /\ clock < MaxClock

Routing == resp.op = "route_auto"

\* the targets the agent sees whose overlay row of his agency is non_traite
VisibleUnprocessed(uid) ==
  IF ~KnownAgent(uid) THEN {}
  ELSE {t \in DOMAIN dpe_targets :
          /\ Visible(uid, t)
          /\ \E at \in OverlayRows(users[uid].agency_id, t) : at.status = "non_traite"}

Smaller(a, b) == IF a <= b THEN a ELSE b

\* C9: the tour has at most min(TOUR_MAX, size of the agent's visible
\* unprocessed set capped at POOL_MAX) stops.
C9_TourLength ==
  Routing
  => Len(resp.target_ids_ordered)
       <= Smaller(TOUR_MAX,
                  Smaller(POOL_MAX, Cardinality(VisibleUnprocessed(resp.uid))))

\* a tour of TOUR_MAX stops out of more than POOL_MAX visible unprocessed targets
C9_Witness ==
  /\ Routing
  /\ Len(resp.target_ids_ordered) = TOUR_MAX
  /\ Cardinality(VisibleUnprocessed(resp.uid)) > POOL_MAX

\* C10: the path is present if and only if the tour has two stops or more;
\* it then has one vertex per stop, the i-th being the (longitude, latitude)
\* of the i-th target of the tour.
C10_Path ==
  Routing
  => /\ resp.polyline.present <=> Len(resp.target_ids_ordered) >= 2
     /\ Len(resp.polyline.coordinates) =
          IF resp.polyline.present THEN Len(resp.target_ids_ordered) ELSE 0
     /\ \A i \in 1..Len(resp.polyline.coordinates) :
          resp.polyline.coordinates[i] =
            <<dpe_targets[resp.target_ids_ordered[i]].longitude,
              dpe_targets[resp.target_ids_ordered[i]].latitude>>

\* a path of three vertices or more, one of them off the diagonal
C10_Witness ==
  /\ Routing
  /\ resp.polyline.present
  /\ Len(resp.target_ids_ordered) >= 3
  /\ \E i \in 1..Len(resp.polyline.coordinates) :
       resp.polyline.coordinates[i][1] # resp.polyline.coordinates[i][2]

TourIds == {resp.target_ids_ordered[k] : k \in 1..Len(resp.target_ids_ordered)}

\* the status the agency's overlay holds for the target
OverlayStatus(agency, t) == {at.status : at \in OverlayRows(agency, t)}

\* the tour's stops are visible unprocessed targets of the agent, in the state
\* the call read, with latitude and longitude, none of them twice
TourFromVisibleUnprocessed ==
  Routing
  => /\ \A k \in 1..Len(resp.target_ids_ordered) :
          /\ resp.target_ids_ordered[k] \in VisibleUnprocessed(resp.uid)
          /\ dpe_targets[resp.target_ids_ordered[k]].latitude # NULL
          /\ dpe_targets[resp.target_ids_ordered[k]].longitude # NULL
     /\ \A i, j \in 1..Len(resp.target_ids_ordered) :
          i # j => resp.target_ids_ordered[i] # resp.target_ids_ordered[j]

\* C11 as stated: every stop of a tour is a visible unprocessed target of the
\* agent with latitude and longitude, no stop twice, and a target that an
\* agent of the agency has once set to done, ignore or done_repasser is in no
\* later tour of the agency's agents.
C11_NeverAgain ==
  /\ TourFromVisibleUnprocessed
  /\ (Routing /\ KnownAgent(resp.uid))
     => \A t \in TourIds : <<users[resp.uid].agency_id, t>> \notin marked

\* C11, amended: every stop of a tour is a visible unprocessed target of the
\* agent with latitude and longitude, no stop twice, and a target that an
\* agent of the agency has set to done, ignore or done_repasser is in no later
\* tour of the agency's agents for as long as no request has set its overlay
\* row back to non_traite.
C11_TourMembers ==
  /\ TourFromVisibleUnprocessed
  /\ (Routing /\ KnownAgent(resp.uid))
     => \A t \in TourIds :
          <<users[resp.uid].agency_id, t>> \in marked
          => OverlayStatus(users[resp.uid].agency_id, t) = {"non_traite"}

\* a tour that holds a target put back to non_traite after it was done, and
\* leaves out a visible target that is still done and a visible unprocessed
\* target without latitude
C11_Witness ==
  /\ Routing
  /\ KnownAgent(resp.uid)
  /\ \E t \in TourIds : <<users[resp.uid].agency_id, t>> \in marked
  /\ \E t \in DOMAIN dpe_targets \ TourIds :
       /\ <<users[resp.uid].agency_id, t>> \in marked
       /\ Visible(resp.uid, t)
       /\ OverlayStatus(users[resp.uid].agency_id, t) = {"done"}
  /\ \E t \in VisibleUnprocessed(resp.uid) : dpe_targets[t].latitude = NULL

\* C12: get_dpe returns its items in strictly ascending order of target id,
\* hence no id twice, and a call repeated by the same agent on the same
\* tables returns the same list.
C12_AscendingIds ==
  [][resp'.op = "get_dpe"
     => /\ \A i, j \in 1..Len(resp'.items) :
             i < j => resp'.items[i].id < resp'.items[j].id
        /\ (resp.op = "get_dpe" /\ resp.uid = resp'.uid)
           => resp'.items = resp.items]_vars

\* a list of two items or more that skips a target of the catalog
C12_Witness ==
  /\ resp.op = "get_dpe"
  /\ Len(resp.items) >= 2
  /\ \E t \in DOMAIN dpe_targets :
       /\ t \notin ItemIds
       /\ \E a, b \in ItemIds : a < t /\ t < b

TerritoriesOf(uid) == {ut \in user_territories : ut.user_id = uid}

\* C13: whatever the interleaving of the statements of the admin's territory
\* assignments and deletions, two assignments for the same agent on two
\* connections included, every agent has at most one micro-territory, and
\* when an assignment has committed the agent's only micro-territory has the
\* geometry it supplied.
C13_OneTerritory ==
  /\ \A u \in UserIds : Cardinality(TerritoriesOf(u)) <= 1
  /\ (resp.op = "admin_upsert_user_territory" /\ resp.kind = "ok")
     => {ut.geom : ut \in TerritoriesOf(resp.uid)} = {resp.geom}

\* an agent with two micro-territories, no request in progress
C13_TwoTerritories ==
  /\ \A p \in Procs : txn[p].op = "idle"
  /\ \E u \in DOMAIN users : Cardinality(TerritoriesOf(u)) = 2

LinksOfAgency(agency) == {az \in agency_zones : az.agency_id = agency}

LinksOfZone(z) == {az \in agency_zones : az.zone_id = z}

\* C14: after any sequence of the admin's zone requests an agency is linked to
\* at most one zone and a zone to at most one agency; unlinking removes the
\* links of one agency and nothing else: every zones row and its geometry
\* stay, and so do the other agency's links.
C14_OneRegion ==
  [][/\ \A ag \in Agencies : Cardinality(LinksOfAgency(ag))' <= 1
     /\ \A z \in DOMAIN zones' : Cardinality(LinksOfZone(z))' <= 1
     /\ Len(zones') >= Len(zones)
     /\ resp'.op = "admin_delete_bu_zone"
        => /\ zones' = zones
           /\ agency_zones' \subseteq agency_zones
           /\ \A a, b \in agency_zones \ agency_zones' : a.agency_id = b.agency_id]_vars

\* an agency was unlinked and its zones row stays with its geometry, while
\* the other agency is linked to another zone
C14_Witness ==
  /\ resp.op = "admin_delete_bu_zone"
  /\ resp.kind = "ok"
  /\ \E z \in DOMAIN zones : LinksOfZone(z) = {} /\ zones[z] # {}
  /\ \E ag \in Agencies : LinksOfAgency(ag) # {}
  /\ \E ag \in Agencies : LinksOfAgency(ag) = {}

\* C15: the answer of a get_dpe or route_auto call is the answer the handler
\* gives on one of the states committed between the arrival of the request
\* and its return, whatever the admin and the agents commit in between.
C15_OneCommittedState ==
  (resp.op \in ReadOps /\ txn[1].op = "idle") => resp \in txn[1].results

\* a read returned an answer while the tables had changed since its request
C15_ReadAcrossCommits ==
  /\ resp.op \in ReadOps
  /\ txn[1].op = "idle"
  /\ Cardinality(txn[1].results) >= 3
  /\ resp.items # <<>>

\* the overlay rows after the call of connection p has run alone on rows
After(rows, p) ==
  update_dpe_status_result(rows, clock, txn[p].dpe_id, txn[p].status,
                           txn[p].next_action_at, txn[p].uid).rows

\* the two calls are about the same (agency, target) pair
SamePair ==
  /\ txn[1].agency_id = txn[2].agency_id
  /\ txn[1].dpe_id = txn[2].dpe_id

BothReturned == \A p \in Procs : txn[p].pc \in Outcomes

\* C16: when two status calls that ran side by side have returned, the
\* overlay rows are those of the two calls run one after the other, the call
\* that committed last being the second; for two successful calls on
\* different (agency, target) pairs both orders give these same rows, and for
\* two successful calls on the same pair the row has the status and the
\* follow-up of the call that committed last.
C16_LastWriteWins ==
  BothReturned
  => /\ txn[2].last => agency_targets = After(After(txn[1].base, 1), 2)
     /\ txn[1].last => agency_targets = After(After(txn[2].base, 2), 1)
     /\ agency_targets \in {After(After(txn[1].base, 1), 2),
                            After(After(txn[2].base, 2), 1)}
     /\ (txn[1].pc = "ok" /\ txn[2].pc = "ok" /\ ~SamePair)
        => After(After(txn[1].base, 1), 2) = After(After(txn[2].base, 2), 1)
     /\ (txn[1].pc = "ok" /\ txn[2].pc = "ok" /\ SamePair)
        => \E p \in Procs :
             /\ txn[p].last
             /\ \A at \in OverlayRows(txn[p].agency_id, txn[p].dpe_id) :
                  /\ at.status = txn[p].status
                  /\ at.next_action_at =
                       StoredNextAction(txn[p].status, txn[p].next_action_at)

\* two successful calls on the same pair, one for done_repasser with a
\* timestamp and one for done, and the call for done committed last
C16_Witness ==
  /\ BothReturned
  /\ txn[1].pc = "ok"
  /\ txn[2].pc = "ok"
  /\ SamePair
  /\ txn[1].uid # txn[2].uid
  /\ txn[1].status = "done_repasser"
  /\ txn[2].status = "done"
  /\ txn[2].last

\* two successful calls on different pairs
C16_WitnessDifferentPairs ==
  /\ BothReturned
  /\ txn[1].pc = "ok"
  /\ txn[2].pc = "ok"
  /\ ~SamePair
  /\ Cardinality({at \in agency_targets : at.status # "non_traite"}) = 2

\* the POOL_MAX highest ids of a set of targets
Highest(S) == {t \in S : Cardinality({x \in S : x > t}) < POOL_MAX}

Located(t) == dpe_targets[t].latitude # NULL /\ dpe_targets[t].longitude # NULL

\* the candidate pool of the agent's tour
Pool(uid) == {t \in Highest(VisibleUnprocessed(uid)) : Located(t)}

\* squared distance between two targets in (longitude, latitude)
Dist2(a, b) ==
  (dpe_targets[a].longitude - dpe_targets[b].longitude)
    * (dpe_targets[a].longitude - dpe_targets[b].longitude)
  + (dpe_targets[a].latitude - dpe_targets[b].latitude)
    * (dpe_targets[a].latitude - dpe_targets[b].latitude)

\* the stops before the k-th
Chosen(k) == {resp.target_ids_ordered[i] : i \in 1..(k - 1)}

\* C17: every stop after the first is a pool candidate not chosen before that
\* is nearest, in squared distance, to the stop before it, and among the
\* candidates at that smallest distance it is the one of highest id.
C17_NearestHighestId ==
  Routing
  => \A k \in 2..Len(resp.target_ids_ordered) :
       LET stop == resp.target_ids_ordered[k]
           prev == resp.target_ids_ordered[k - 1]
       IN /\ stop \in Pool(resp.uid) \ Chosen(k)
          /\ \A c \in Pool(resp.uid) \ Chosen(k) :
               \/ Dist2(prev, stop) < Dist2(prev, c)
               \/ Dist2(prev, stop) = Dist2(prev, c) /\ c <= stop

\* a stop that won a tie, and a stop that is not the highest id left
C17_Witness ==
  /\ Routing
  /\ \E k \in 2..Len(resp.target_ids_ordered) :
       \E c \in Pool(resp.uid) \ Chosen(k) :
         /\ c < resp.target_ids_ordered[k]
         /\ Dist2(resp.target_ids_ordered[k - 1], c)
              = Dist2(resp.target_ids_ordered[k - 1], resp.target_ids_ordered[k])
  /\ \E k \in 2..Len(resp.target_ids_ordered) :
       \E c \in Pool(resp.uid) \ Chosen(k) : c > resp.target_ids_ordered[k]

\* C18: the stops come from the pool, the located targets among the POOL_MAX
\* highest ids of the visible unprocessed targets; the first stop is the
\* highest id of the pool, the tour has min(TOUR_MAX, size of the pool)
\* stops, and with an empty pool the tour is empty and has no path.
C18_PoolAndSeed ==
  Routing
  => /\ TourIds \subseteq Pool(resp.uid)
     /\ Len(resp.target_ids_ordered)
          = Smaller(TOUR_MAX, Cardinality(Pool(resp.uid)))
     /\ Pool(resp.uid) # {}
        => \A t \in Pool(resp.uid) : t <= resp.target_ids_ordered[1]
     /\ Pool(resp.uid) = {}
        => resp.target_ids_ordered = <<>> /\ ~resp.polyline.present

\* a full tour from a pool smaller than POOL_MAX while a located visible
\* unprocessed target is below the POOL_MAX highest ids, and the highest
\* visible unprocessed id is not located
C18_Witness ==
  /\ Routing
  /\ Len(resp.target_ids_ordered) = TOUR_MAX
  /\ Cardinality(Pool(resp.uid)) < POOL_MAX
  /\ \E t \in VisibleUnprocessed(resp.uid) \ Highest(VisibleUnprocessed(resp.uid)) :
       Located(t)
  /\ \E t \in VisibleUnprocessed(resp.uid) : t > resp.target_ids_ordered[1]

\* the pool is empty while visible unprocessed targets exist
C18_EmptyPool ==
  /\ Routing
  /\ VisibleUnprocessed(resp.uid) # {}
  /\ Pool(resp.uid) = {}

\* the agent's agency has an overlay row for the target of the request
HasOverlayRow ==
  /\ KnownAgent(resp.uid)
  /\ \E at \in agency_targets : /\ at.agency_id = users[resp.uid].agency_id
                                 /\ at.dpe_target_id = resp.dpe_id

BadRequest == BadArguments(resp.status, resp.payload_next_action_at)

\* C19: a status request with a status outside the allowed list, or with
\* done_repasser and no next_action_at, is answered InvalidArgument whoever
\* the agent and whatever the overlay rows, and no other request is; a request
\* with valid arguments from an unknown agent is answered NotFound "User
\* inconnu", and the NotFound of a missing overlay row is answered only to a
\* known agent with valid arguments.
C19_ValidationFirst ==
  Updating
  => /\ BadRequest <=> resp.kind = "InvalidArgument"
     /\ (~BadRequest /\ ~KnownAgent(resp.uid))
        <=> (resp.kind = "NotFound" /\ resp.detail = "User inconnu")
     /\ (~BadRequest /\ KnownAgent(resp.uid) /\ ~HasOverlayRow)
        <=> (resp.kind = "NotFound"
             /\ resp.detail = "Target absent de l'overlay agence")

\* invalid arguments from an unknown agent
C19_Witness ==
  /\ Updating
  /\ BadRequest
  /\ ~KnownAgent(resp.uid)
  /\ resp.kind = "InvalidArgument"

\* invalid arguments from a known agent whose agency has no row for the target
C19_InvalidWithoutRow ==
  /\ Updating
  /\ BadRequest
  /\ KnownAgent(resp.uid)
  /\ ~HasOverlayRow
  /\ resp.kind = "InvalidArgument"

\* valid arguments from an unknown agent, on a target no agency has a row for
\* and on a target an agency has a row for
C19_UnknownAgent ==
  /\ Updating
  /\ ~BadRequest
  /\ ~KnownAgent(resp.uid)
  /\ resp.detail = "User inconnu"

SurfaceAbsent(t) == dpe_targets[t].surface_m2 = NULL

\* the agent has a minimum or a maximum surface
Bounded(uid) ==
  users[uid].min_surface_m2 # NULL \/ users[uid].max_surface_m2 # NULL

\* every condition of visibility but the surface bounds
VisibleButSurface(uid, t) ==
  /\ InRegion(users[uid].agency_id, t)
  /\ InTerritory(uid, t)
  /\ OverlayRows(users[uid].agency_id, t) # {}

Unprocessed(uid, t) ==
  \E at \in OverlayRows(users[uid].agency_id, t) : at.status = "non_traite"

\* C20: get_dpe returns a target without surface if and only if the target
\* passes the conditions of region, micro-territory and overlay and the agent
\* has neither a minimum nor a maximum surface; a tour never holds a target
\* without surface for an agent with a bound, and a tour that is not full
\* holds every located unprocessed target without surface that passes those
\* conditions for an agent without bounds.
C20_AbsentSurface ==
  (resp.op \in {"get_dpe", "route_auto"} /\ resp.kind = "ok" /\ KnownAgent(resp.uid))
  => \A t \in DOMAIN dpe_targets :
       SurfaceAbsent(t)
       => /\ resp.op = "get_dpe"
             => (t \in ItemIds
                 <=> (VisibleButSurface(resp.uid, t) /\ ~Bounded(resp.uid)))
          /\ resp.op = "route_auto"
             => /\ t \in TourIds => ~Bounded(resp.uid)
                /\ (/\ Len(resp.target_ids_ordered) < TOUR_MAX
                    /\ Cardinality(DOMAIN dpe_targets) <= POOL_MAX)
                   => (t \in TourIds
                       <=> /\ VisibleButSurface(resp.uid, t)
                           /\ Unprocessed(resp.uid, t)
                           /\ Located(t)
                           /\ ~Bounded(resp.uid))

\* get_dpe returns a target without surface to an agent without bounds
C20_Witness ==
  /\ resp.op = "get_dpe"
  /\ KnownAgent(resp.uid)
  /\ ~Bounded(resp.uid)
  /\ \E t \in ItemIds : SurfaceAbsent(t)

\* get_dpe returns targets to an agent with a minimum only, or a maximum
\* only, and leaves out a target without surface that passes every other
\* condition
C20_ExcludedByOneBound ==
  /\ resp.op = "get_dpe"
  /\ KnownAgent(resp.uid)
  /\ users[resp.uid].min_surface_m2 = NULL \/ users[resp.uid].max_surface_m2 = NULL
  /\ Bounded(resp.uid)
  /\ ItemIds # {}
  /\ \E t \in DOMAIN dpe_targets \ ItemIds :
       SurfaceAbsent(t) /\ VisibleButSurface(resp.uid, t)

\* a tour holds a target without surface
C20_TourWithAbsentSurface ==
  /\ Routing
  /\ \E t \in TourIds : SurfaceAbsent(t)

\* a tour for an agent with bounds leaves out a located unprocessed target
\* without surface that passes every other condition
C20_TourExcludes ==
  /\ Routing
  /\ KnownAgent(resp.uid)
  /\ Bounded(resp.uid)
  /\ TourIds # {}
  /\ \E t \in DOMAIN dpe_targets \ TourIds :
       /\ SurfaceAbsent(t)
       /\ Located(t)
       /\ VisibleButSurface(resp.uid, t)
       /\ Unprocessed(resp.uid, t)

====
